---- MODULE Spec2Model ----
(***************************************************************************)
(* Obstetric dating engine of the pregnancy calculator:                    *)
(*   getRedatingThreshold, calculatePregnancyFromEdd,                      *)
(*   calculatePregnancyInfo                                                *)
(* (src/src/components/calculator/pregnancy/pregnancy-input-form.tsx).     *)
(*                                                                         *)
(* Time is a count of ticks of local wall-clock time, TicksPerDay ticks to *)
(* a calendar day, tick 0 of a day being local midnight.  A JavaScript     *)
(* Date is a record [k, t]: k = "date" with its tick count t, or           *)
(* k = "invalid" (a Date whose time value is NaN), "null", "undefined".    *)
(* A JavaScript number is a record [k, n]: k = "num" with the integer n,   *)
(* k = "NaN", or k = "undefined" (an omitted optional argument).           *)
(***************************************************************************)
EXTENDS Integers, Sequences, FiniteSets, TLC

(***************************************************************************)
(* Bounds of the model.                                                    *)
(***************************************************************************)
\* ticks in one calendar day
TicksPerDay == 2
\* a Date holds at most this many days either side of the epoch
\* (stands for the 100,000,000 days of an ECMAScript time value)
DateRangeDays == 1000
\* last calendar day on which the ultrasound grid places a scan
MaxUsDay == 203
\* largest sonographic week count of the ultrasound grid
MaxGaWeeks == 31
\* the ultrasound grid starts this many days before the LMP day
UsDaysBefore == 8
\* largest distance, in days, of a sonographic age from the scan's own day
\* in the dense ultrasound grid
MaxDiscrepancy == 23
\* largest week count getRedatingThreshold is applied to directly
MaxThresholdWeeks == 40
\* last calendar day of the evaluation instants of the clock grid
MaxNowDay == 200
\* the clock grid starts this many days before the LMP day
NowDaysBefore == 2
\* length of the model's calendar year (what 'MMM d' cannot tell apart)
DaysPerYear == 365

(***************************************************************************)
(* JavaScript values.                                                      *)
(***************************************************************************)
D(t) == [k |-> "date", t |-> t]
InvalidDate == [k |-> "invalid", t |-> 0]
NullDate == [k |-> "null", t |-> 0]
UndefinedDate == [k |-> "undefined", t |-> 0]

Num(n) == [k |-> "num", n |-> n]
NaN == [k |-> "NaN", n |-> 0]
UndefinedNum == [k |-> "undefined", n |-> 0]

Abs(n) == IF n < 0 THEN 0 - n ELSE n

\* largest tick count a Date can hold (TimeClip)
MaxTime == DateRangeDays * TicksPerDay

\* calendar day of a tick count (startOfDay)
DayOf(t) == t \div TicksPerDay

(***************************************************************************)
(* date-fns, as imported by the calculator.                                *)
(***************************************************************************)
\* addDays: setDate(getDate() + amount); a time value out of range is NaN
addDays(date, amount) ==
  IF date.k # "date" THEN InvalidDate
  ELSE LET t == date.t + amount * TicksPerDay
       IN IF Abs(t) > MaxTime THEN InvalidDate ELSE D(t)

\* add(date, {weeks, days})
add(date, weeks, days) == addDays(date, days + weeks * 7)

\* sub(date, {days})
sub(date, days) == addDays(date, 0 - days)

\* compareLocalAsc of differenceInDays
compareLocalAsc(l, r) == IF l < r THEN 0 - 1 ELSE IF l > r THEN 1 ELSE 0

\* differenceInDays(dateLeft, dateRight): full days, truncated towards zero
differenceInDays(dateLeft, dateRight) ==
  IF dateLeft.k # "date" \/ dateRight.k # "date" THEN NaN
  ELSE LET sign == compareLocalAsc(dateLeft.t, dateRight.t)
           difference == Abs(DayOf(dateLeft.t) - DayOf(dateRight.t))
           moved == dateLeft.t - sign * difference * TicksPerDay
           isLastDayNotFull ==
             IF compareLocalAsc(moved, dateRight.t) = 0 - sign THEN 1 ELSE 0
       IN Num(sign * (difference - isLastDayNotFull))

\* format(date, 'yyyy-MM-dd') and format(date, 'MMM d, yyyy'): the calendar
\* day, without the time of day
formatFull(date) == DayOf(date.t)

\* format(date, 'MMM d'): month and day of month, without the year
formatMonthDay(date) == DayOf(date.t) % DaysPerYear

(***************************************************************************)
(* JavaScript number operators on [k, n] records.                          *)
(***************************************************************************)
\* a < b, a <= b, a > b, a >= b: false when an operand is NaN
Lt(a, b) == a.k = "num" /\ b.k = "num" /\ a.n < b.n
Le(a, b) == a.k = "num" /\ b.k = "num" /\ a.n <= b.n
Gt(a, b) == a.k = "num" /\ b.k = "num" /\ a.n > b.n
Ge(a, b) == a.k = "num" /\ b.k = "num" /\ a.n >= b.n

\* Math.floor(a / 7)
FloorDiv7(a) == IF a.k = "num" THEN Num(a.n \div 7) ELSE NaN

\* a % 7 of a non-negative a
Mod7(a) == IF a.k = "num" THEN Num(a.n % 7) ELSE NaN

\* Math.abs(a - b)
AbsDiff(a, b) == IF a.k = "num" /\ b.k = "num" THEN Num(Abs(a.n - b.n)) ELSE NaN

\* today > date on Date objects: false when date is invalid
After(today, date) == date.k = "date" /\ today.t > date.t

(***************************************************************************)
(* The calculator.                                                         *)
(***************************************************************************)
pregnancyMilestones ==
  << [name |-> "Blood Screening", startWeeks |-> 10, startDays |-> 0, endWeeks |-> 13, endDays |-> 6],
     [name |-> "First Fetal Heart Tones by Doppler", startWeeks |-> 11, startDays |-> 0, endWeeks |-> 12, endDays |-> 0],
     [name |-> "NT scan window", startWeeks |-> 11, startDays |-> 2, endWeeks |-> 14, endDays |-> 2],
     [name |-> "Anatomy scan window", startWeeks |-> 18, startDays |-> 0, endWeeks |-> 21, endDays |-> 0],
     [name |-> "Typical anatomy scan", startWeeks |-> 20, startDays |-> 0, endWeeks |-> 20, endDays |-> 0],
     [name |-> "Glucose screen", startWeeks |-> 24, startDays |-> 0, endWeeks |-> 28, endDays |-> 0],
     [name |-> "GBS screen", startWeeks |-> 35, startDays |-> 0, endWeeks |-> 37, endDays |-> 0],
     [name |-> "Tdap vaccination", startWeeks |-> 27, startDays |-> 0, endWeeks |-> 36, endDays |-> 0] >>

\* getRedatingThreshold with the 9-13 band closed one week early
getRedatingThreshold_early(gaWeeks) ==
  IF Lt(gaWeeks, Num(5)) THEN 0
  ELSE IF Le(gaWeeks, Num(8)) THEN 5
  ELSE IF Lt(gaWeeks, Num(13)) THEN 7
  ELSE IF Le(gaWeeks, Num(15)) THEN 10
  ELSE IF Le(gaWeeks, Num(21)) THEN 14
  ELSE IF Le(gaWeeks, Num(27)) THEN 21
  ELSE 21

getRedatingThreshold(gaWeeks) ==
  IF Lt(gaWeeks, Num(5)) THEN 0
  ELSE IF Le(gaWeeks, Num(8)) THEN 5
  ELSE IF Le(gaWeeks, Num(13)) THEN 7
  ELSE IF Le(gaWeeks, Num(15)) THEN 10
  ELSE IF Le(gaWeeks, Num(21)) THEN 14
  ELSE IF Le(gaWeeks, Num(27)) THEN 21
  ELSE 21

ThrownResult == [k |-> "throw"]
NullResult == [k |-> "null"]

\* milestoneEntry rendering every entry as a range
milestoneEntry_alwaysRange(estimatedLmp, m) ==
  LET startDate == add(estimatedLmp, m.startWeeks, m.startDays)
      endDate == add(estimatedLmp, m.endWeeks, m.endDays)
  IN IF startDate.k # "date" \/ endDate.k # "date" THEN ThrownResult
     ELSE LET startStr == formatMonthDay(startDate)
              endStr == formatFull(endDate)
          IN [k |-> "milestone", name |-> m.name, dateRange |-> <<startStr, endStr>>]

\* the pregnancyMilestones.map callback: one {name, dateRange} entry;
\* format throws RangeError("Invalid time value") on an invalid Date
milestoneEntry(estimatedLmp, m) ==
  LET startDate == add(estimatedLmp, m.startWeeks, m.startDays)
      endDate == add(estimatedLmp, m.endWeeks, m.endDays)
  IN IF startDate.k # "date" \/ endDate.k # "date" THEN ThrownResult
     ELSE LET startStr == formatMonthDay(startDate)
              endStr == formatFull(endDate)
              isSameDay == formatFull(startDate) = formatFull(endDate)
          IN [k |-> "milestone", name |-> m.name,
              dateRange |-> IF isSameDay THEN <<endStr>> ELSE <<startStr, endStr>>]

\* calculatePregnancyFromEdd taking the estimated LMP as the conception date
calculatePregnancyFromEdd_conception(edd, today) ==
  IF edd.k \in {"null", "undefined", "invalid"} THEN NullResult
  ELSE
    LET estimatedLmp == sub(edd, 280)
        diff == differenceInDays(today, estimatedLmp)
        currentGaInDays == IF Lt(diff, Num(0)) THEN Num(0) ELSE diff
        firstTrimesterEnd == add(estimatedLmp, 13, 6)
        secondTrimesterEnd == add(estimatedLmp, 27, 6)
        trimester == IF After(today, secondTrimesterEnd) THEN 3
                     ELSE IF After(today, firstTrimesterEnd) THEN 2
                     ELSE 1
        milestoneDates == [i \in DOMAIN pregnancyMilestones |->
                             milestoneEntry(estimatedLmp, pregnancyMilestones[i])]
    IN IF \E i \in DOMAIN milestoneDates : milestoneDates[i].k = "throw"
       THEN ThrownResult
       ELSE [k |-> "info",
             lmpEdd |-> edd,
             ultrasoundEdd |-> edd,
             bestEstimateEdd |-> edd,
             source |-> "Ultrasound",
             gestationalAgeWeeks |-> FloorDiv7(currentGaInDays),
             gestationalAgeDays |-> Mod7(currentGaInDays),
             conceptionDate |-> sub(edd, 280),
             trimester |-> trimester,
             firstTrimesterEnd |-> firstTrimesterEnd,
             secondTrimesterEnd |-> secondTrimesterEnd,
             discrepancyDays |-> Num(0),
             milestoneDates |-> milestoneDates]

\* calculatePregnancyFromEdd ending the first trimester at 13w0d
calculatePregnancyFromEdd_drift(edd, today) ==
  IF edd.k \in {"null", "undefined", "invalid"} THEN NullResult
  ELSE
    LET estimatedLmp == sub(edd, 280)
        diff == differenceInDays(today, estimatedLmp)
        currentGaInDays == IF Lt(diff, Num(0)) THEN Num(0) ELSE diff
        firstTrimesterEnd == add(estimatedLmp, 13, 0)
        secondTrimesterEnd == add(estimatedLmp, 27, 6)
        trimester == IF After(today, secondTrimesterEnd) THEN 3
                     ELSE IF After(today, firstTrimesterEnd) THEN 2
                     ELSE 1
        milestoneDates == [i \in DOMAIN pregnancyMilestones |->
                             milestoneEntry(estimatedLmp, pregnancyMilestones[i])]
    IN IF \E i \in DOMAIN milestoneDates : milestoneDates[i].k = "throw"
       THEN ThrownResult
       ELSE [k |-> "info",
             lmpEdd |-> edd,
             ultrasoundEdd |-> edd,
             bestEstimateEdd |-> edd,
             source |-> "Ultrasound",
             gestationalAgeWeeks |-> FloorDiv7(currentGaInDays),
             gestationalAgeDays |-> Mod7(currentGaInDays),
             conceptionDate |-> sub(edd, 266),
             trimester |-> trimester,
             firstTrimesterEnd |-> firstTrimesterEnd,
             secondTrimesterEnd |-> secondTrimesterEnd,
             discrepancyDays |-> Num(0),
             milestoneDates |-> milestoneDates]

calculatePregnancyFromEdd(edd, today) ==
  IF edd.k \in {"null", "undefined", "invalid"} THEN NullResult
  ELSE
    LET estimatedLmp == sub(edd, 280)
        diff == differenceInDays(today, estimatedLmp)
        currentGaInDays == IF Lt(diff, Num(0)) THEN Num(0) ELSE diff
        firstTrimesterEnd == add(estimatedLmp, 13, 6)
        secondTrimesterEnd == add(estimatedLmp, 27, 6)
        trimester == IF After(today, secondTrimesterEnd) THEN 3
                     ELSE IF After(today, firstTrimesterEnd) THEN 2
                     ELSE 1
        milestoneDates == [i \in DOMAIN pregnancyMilestones |->
                             milestoneEntry(estimatedLmp, pregnancyMilestones[i])]
    IN IF \E i \in DOMAIN milestoneDates : milestoneDates[i].k = "throw"
       THEN ThrownResult
       ELSE [k |-> "info",
             lmpEdd |-> edd,
             ultrasoundEdd |-> edd,
             bestEstimateEdd |-> edd,
             source |-> "Ultrasound",
             gestationalAgeWeeks |-> FloorDiv7(currentGaInDays),
             gestationalAgeDays |-> Mod7(currentGaInDays),
             conceptionDate |-> sub(edd, 266),
             trimester |-> trimester,
             firstTrimesterEnd |-> firstTrimesterEnd,
             secondTrimesterEnd |-> secondTrimesterEnd,
             discrepancyDays |-> Num(0),
             milestoneDates |-> milestoneDates]

\* redatingDecision taking the scan as present without looking at gaDays
redatingDecision_noDays(lmpDate, ultrasoundDate, gaWeeks, gaDays) ==
  LET lmpEdd == add(lmpDate, 0, 280)
  IN IF ultrasoundDate.k # "undefined" /\ gaWeeks.k # "undefined"
     THEN LET measuredGaInDays == Num(gaWeeks.n * 7 + gaDays.n)
              ultrasoundEdd == add(ultrasoundDate, 0, 280 - measuredGaInDays.n)
              lmpBasedGaInDays == differenceInDays(ultrasoundDate, lmpDate)
              discrepancyDays == AbsDiff(lmpBasedGaInDays, measuredGaInDays)
              gaWeeksByLmp == FloorDiv7(lmpBasedGaInDays)
              redatingThreshold == getRedatingThreshold(gaWeeksByLmp)
          IN IF Ge(gaWeeksByLmp, Num(5)) /\ Gt(discrepancyDays, Num(redatingThreshold))
             THEN [lmpEdd |-> lmpEdd, ultrasoundEdd |-> ultrasoundEdd,
                   bestEstimateEdd |-> ultrasoundEdd, source |-> "Ultrasound",
                   discrepancyDays |-> discrepancyDays]
             ELSE [lmpEdd |-> lmpEdd, ultrasoundEdd |-> ultrasoundEdd,
                   bestEstimateEdd |-> lmpEdd, source |-> "LMP_CONFIRMED",
                   discrepancyDays |-> discrepancyDays]
     ELSE [lmpEdd |-> lmpEdd, ultrasoundEdd |-> lmpEdd, bestEstimateEdd |-> lmpEdd,
           source |-> "LMP", discrepancyDays |-> Num(0)]

\* redatingDecision redating already at the threshold
redatingDecision_atThreshold(lmpDate, ultrasoundDate, gaWeeks, gaDays) ==
  LET lmpEdd == add(lmpDate, 0, 280)
  IN IF ultrasoundDate.k # "undefined" /\ gaWeeks.k # "undefined" /\ gaDays.k # "undefined"
     THEN LET measuredGaInDays == Num(gaWeeks.n * 7 + gaDays.n)
              ultrasoundEdd == add(ultrasoundDate, 0, 280 - measuredGaInDays.n)
              lmpBasedGaInDays == differenceInDays(ultrasoundDate, lmpDate)
              discrepancyDays == AbsDiff(lmpBasedGaInDays, measuredGaInDays)
              gaWeeksByLmp == FloorDiv7(lmpBasedGaInDays)
              redatingThreshold == getRedatingThreshold(gaWeeksByLmp)
          IN IF Ge(gaWeeksByLmp, Num(5)) /\ Ge(discrepancyDays, Num(redatingThreshold))
             THEN [lmpEdd |-> lmpEdd, ultrasoundEdd |-> ultrasoundEdd,
                   bestEstimateEdd |-> ultrasoundEdd, source |-> "Ultrasound",
                   discrepancyDays |-> discrepancyDays]
             ELSE [lmpEdd |-> lmpEdd, ultrasoundEdd |-> ultrasoundEdd,
                   bestEstimateEdd |-> lmpEdd, source |-> "LMP_CONFIRMED",
                   discrepancyDays |-> discrepancyDays]
     ELSE [lmpEdd |-> lmpEdd, ultrasoundEdd |-> lmpEdd, bestEstimateEdd |-> lmpEdd,
           source |-> "LMP", discrepancyDays |-> Num(0)]

\* redatingDecision without the five-week guard
redatingDecision_noWeekGuard(lmpDate, ultrasoundDate, gaWeeks, gaDays) ==
  LET lmpEdd == add(lmpDate, 0, 280)
  IN IF ultrasoundDate.k # "undefined" /\ gaWeeks.k # "undefined" /\ gaDays.k # "undefined"
     THEN LET measuredGaInDays == Num(gaWeeks.n * 7 + gaDays.n)
              ultrasoundEdd == add(ultrasoundDate, 0, 280 - measuredGaInDays.n)
              lmpBasedGaInDays == differenceInDays(ultrasoundDate, lmpDate)
              discrepancyDays == AbsDiff(lmpBasedGaInDays, measuredGaInDays)
              gaWeeksByLmp == FloorDiv7(lmpBasedGaInDays)
              redatingThreshold == getRedatingThreshold(gaWeeksByLmp)
          IN IF Gt(discrepancyDays, Num(redatingThreshold))
             THEN [lmpEdd |-> lmpEdd, ultrasoundEdd |-> ultrasoundEdd,
                   bestEstimateEdd |-> ultrasoundEdd, source |-> "Ultrasound",
                   discrepancyDays |-> discrepancyDays]
             ELSE [lmpEdd |-> lmpEdd, ultrasoundEdd |-> ultrasoundEdd,
                   bestEstimateEdd |-> lmpEdd, source |-> "LMP_CONFIRMED",
                   discrepancyDays |-> discrepancyDays]
     ELSE [lmpEdd |-> lmpEdd, ultrasoundEdd |-> lmpEdd, bestEstimateEdd |-> lmpEdd,
           source |-> "LMP", discrepancyDays |-> Num(0)]

\* redatingDecision comparing the signed difference with the threshold
redatingDecision_signed(lmpDate, ultrasoundDate, gaWeeks, gaDays) ==
  LET lmpEdd == add(lmpDate, 0, 280)
  IN IF ultrasoundDate.k # "undefined" /\ gaWeeks.k # "undefined" /\ gaDays.k # "undefined"
     THEN LET measuredGaInDays == Num(gaWeeks.n * 7 + gaDays.n)
              ultrasoundEdd == add(ultrasoundDate, 0, 280 - measuredGaInDays.n)
              lmpBasedGaInDays == differenceInDays(ultrasoundDate, lmpDate)
              discrepancyDays == AbsDiff(lmpBasedGaInDays, measuredGaInDays)
              gaWeeksByLmp == FloorDiv7(lmpBasedGaInDays)
              redatingThreshold == getRedatingThreshold(gaWeeksByLmp)
          IN IF Ge(gaWeeksByLmp, Num(5))
                /\ lmpBasedGaInDays.k = "num"
                /\ lmpBasedGaInDays.n - measuredGaInDays.n > redatingThreshold
             THEN [lmpEdd |-> lmpEdd, ultrasoundEdd |-> ultrasoundEdd,
                   bestEstimateEdd |-> ultrasoundEdd, source |-> "Ultrasound",
                   discrepancyDays |-> discrepancyDays]
             ELSE [lmpEdd |-> lmpEdd, ultrasoundEdd |-> ultrasoundEdd,
                   bestEstimateEdd |-> lmpEdd, source |-> "LMP_CONFIRMED",
                   discrepancyDays |-> discrepancyDays]
     ELSE [lmpEdd |-> lmpEdd, ultrasoundEdd |-> lmpEdd, bestEstimateEdd |-> lmpEdd,
           source |-> "LMP", discrepancyDays |-> Num(0)]

\* calculatePregnancyInfo, the dating part: the two estimates and the
\* redating decision, for a valid lmpDate
redatingDecision(lmpDate, ultrasoundDate, gaWeeks, gaDays) ==
  LET lmpEdd == add(lmpDate, 0, 280)
  IN IF ultrasoundDate.k # "undefined" /\ gaWeeks.k # "undefined" /\ gaDays.k # "undefined"
     THEN LET measuredGaInDays == Num(gaWeeks.n * 7 + gaDays.n)
              ultrasoundEdd == add(ultrasoundDate, 0, 280 - measuredGaInDays.n)
              lmpBasedGaInDays == differenceInDays(ultrasoundDate, lmpDate)
              discrepancyDays == AbsDiff(lmpBasedGaInDays, measuredGaInDays)
              gaWeeksByLmp == FloorDiv7(lmpBasedGaInDays)
              redatingThreshold == getRedatingThreshold(gaWeeksByLmp)
          IN IF Ge(gaWeeksByLmp, Num(5)) /\ Gt(discrepancyDays, Num(redatingThreshold))
             THEN [lmpEdd |-> lmpEdd, ultrasoundEdd |-> ultrasoundEdd,
                   bestEstimateEdd |-> ultrasoundEdd, source |-> "Ultrasound",
                   discrepancyDays |-> discrepancyDays]
             ELSE [lmpEdd |-> lmpEdd, ultrasoundEdd |-> ultrasoundEdd,
                   bestEstimateEdd |-> lmpEdd, source |-> "LMP_CONFIRMED",
                   discrepancyDays |-> discrepancyDays]
     ELSE [lmpEdd |-> lmpEdd, ultrasoundEdd |-> lmpEdd, bestEstimateEdd |-> lmpEdd,
           source |-> "LMP", discrepancyDays |-> Num(0)]

\* calculatePregnancyInfo entering the next trimester at the cutoff itself
calculatePregnancyInfo_atCutoff(lmpDate, ultrasoundDate, gaWeeks, gaDays, today) ==
  IF lmpDate.k \in {"null", "undefined", "invalid"} THEN NullResult
  ELSE
    LET dating == redatingDecision(lmpDate, ultrasoundDate, gaWeeks, gaDays)
        estimatedLmp == sub(dating.bestEstimateEdd, 280)
        diff == differenceInDays(today, estimatedLmp)
        currentGaInDays == IF Lt(diff, Num(0)) THEN Num(0) ELSE diff
        firstTrimesterEnd == add(estimatedLmp, 13, 6)
        secondTrimesterEnd == add(estimatedLmp, 27, 6)
        trimester == IF ~After(secondTrimesterEnd, today) THEN 3
                     ELSE IF ~After(firstTrimesterEnd, today) THEN 2
                     ELSE 1
        milestoneDates == [i \in DOMAIN pregnancyMilestones |->
                             milestoneEntry(estimatedLmp, pregnancyMilestones[i])]
    IN IF \E i \in DOMAIN milestoneDates : milestoneDates[i].k = "throw"
       THEN ThrownResult
       ELSE [k |-> "info",
             lmpEdd |-> dating.lmpEdd,
             ultrasoundEdd |-> dating.ultrasoundEdd,
             bestEstimateEdd |-> dating.bestEstimateEdd,
             source |-> dating.source,
             gestationalAgeWeeks |-> FloorDiv7(currentGaInDays),
             gestationalAgeDays |-> Mod7(currentGaInDays),
             conceptionDate |-> add(estimatedLmp, 2, 0),
             trimester |-> trimester,
             firstTrimesterEnd |-> firstTrimesterEnd,
             secondTrimesterEnd |-> secondTrimesterEnd,
             discrepancyDays |-> dating.discrepancyDays,
             milestoneDates |-> milestoneDates]

\* calculatePregnancyInfo without the clamp of a negative age
calculatePregnancyInfo_noClamp(lmpDate, ultrasoundDate, gaWeeks, gaDays, today) ==
  IF lmpDate.k \in {"null", "undefined", "invalid"} THEN NullResult
  ELSE
    LET dating == redatingDecision(lmpDate, ultrasoundDate, gaWeeks, gaDays)
        estimatedLmp == sub(dating.bestEstimateEdd, 280)
        diff == differenceInDays(today, estimatedLmp)
        currentGaInDays == diff
        firstTrimesterEnd == add(estimatedLmp, 13, 6)
        secondTrimesterEnd == add(estimatedLmp, 27, 6)
        trimester == IF After(today, secondTrimesterEnd) THEN 3
                     ELSE IF After(today, firstTrimesterEnd) THEN 2
                     ELSE 1
        milestoneDates == [i \in DOMAIN pregnancyMilestones |->
                             milestoneEntry(estimatedLmp, pregnancyMilestones[i])]
    IN IF \E i \in DOMAIN milestoneDates : milestoneDates[i].k = "throw"
       THEN ThrownResult
       ELSE [k |-> "info",
             lmpEdd |-> dating.lmpEdd,
             ultrasoundEdd |-> dating.ultrasoundEdd,
             bestEstimateEdd |-> dating.bestEstimateEdd,
             source |-> dating.source,
             gestationalAgeWeeks |-> FloorDiv7(currentGaInDays),
             gestationalAgeDays |-> Mod7(currentGaInDays),
             conceptionDate |-> add(estimatedLmp, 2, 0),
             trimester |-> trimester,
             firstTrimesterEnd |-> firstTrimesterEnd,
             secondTrimesterEnd |-> secondTrimesterEnd,
             discrepancyDays |-> dating.discrepancyDays,
             milestoneDates |-> milestoneDates]

\* calculatePregnancyInfo deriving the conception date from the entered lmpDate
calculatePregnancyInfo_fromLmp(lmpDate, ultrasoundDate, gaWeeks, gaDays, today) ==
  IF lmpDate.k \in {"null", "undefined", "invalid"} THEN NullResult
  ELSE
    LET dating == redatingDecision(lmpDate, ultrasoundDate, gaWeeks, gaDays)
        estimatedLmp == sub(dating.bestEstimateEdd, 280)
        diff == differenceInDays(today, estimatedLmp)
        currentGaInDays == IF Lt(diff, Num(0)) THEN Num(0) ELSE diff
        firstTrimesterEnd == add(estimatedLmp, 13, 6)
        secondTrimesterEnd == add(estimatedLmp, 27, 6)
        trimester == IF After(today, secondTrimesterEnd) THEN 3
                     ELSE IF After(today, firstTrimesterEnd) THEN 2
                     ELSE 1
        milestoneDates == [i \in DOMAIN pregnancyMilestones |->
                             milestoneEntry(estimatedLmp, pregnancyMilestones[i])]
    IN IF \E i \in DOMAIN milestoneDates : milestoneDates[i].k = "throw"
       THEN ThrownResult
       ELSE [k |-> "info",
             lmpEdd |-> dating.lmpEdd,
             ultrasoundEdd |-> dating.ultrasoundEdd,
             bestEstimateEdd |-> dating.bestEstimateEdd,
             source |-> dating.source,
             gestationalAgeWeeks |-> FloorDiv7(currentGaInDays),
             gestationalAgeDays |-> Mod7(currentGaInDays),
             conceptionDate |-> add(lmpDate, 2, 0),
             trimester |-> trimester,
             firstTrimesterEnd |-> firstTrimesterEnd,
             secondTrimesterEnd |-> secondTrimesterEnd,
             discrepancyDays |-> dating.discrepancyDays,
             milestoneDates |-> milestoneDates]

calculatePregnancyInfo(lmpDate, ultrasoundDate, gaWeeks, gaDays, today) ==
  IF lmpDate.k \in {"null", "undefined", "invalid"} THEN NullResult
  ELSE
    LET dating == redatingDecision(lmpDate, ultrasoundDate, gaWeeks, gaDays)
        estimatedLmp == sub(dating.bestEstimateEdd, 280)
        diff == differenceInDays(today, estimatedLmp)
        currentGaInDays == IF Lt(diff, Num(0)) THEN Num(0) ELSE diff
        firstTrimesterEnd == add(estimatedLmp, 13, 6)
        secondTrimesterEnd == add(estimatedLmp, 27, 6)
        trimester == IF After(today, secondTrimesterEnd) THEN 3
                     ELSE IF After(today, firstTrimesterEnd) THEN 2
                     ELSE 1
        milestoneDates == [i \in DOMAIN pregnancyMilestones |->
                             milestoneEntry(estimatedLmp, pregnancyMilestones[i])]
    IN IF \E i \in DOMAIN milestoneDates : milestoneDates[i].k = "throw"
       THEN ThrownResult
       ELSE [k |-> "info",
             lmpEdd |-> dating.lmpEdd,
             ultrasoundEdd |-> dating.ultrasoundEdd,
             bestEstimateEdd |-> dating.bestEstimateEdd,
             source |-> dating.source,
             gestationalAgeWeeks |-> FloorDiv7(currentGaInDays),
             gestationalAgeDays |-> Mod7(currentGaInDays),
             conceptionDate |-> add(estimatedLmp, 2, 0),
             trimester |-> trimester,
             firstTrimesterEnd |-> firstTrimesterEnd,
             secondTrimesterEnd |-> secondTrimesterEnd,
             discrepancyDays |-> dating.discrepancyDays,
             milestoneDates |-> milestoneDates]

(***************************************************************************)
(* Calls of the engine.  call is the last call with its arguments, today   *)
(* the instant new Date() yields inside it, ret what it returned.  hook is *)
(* the state of a usePregnancyCalculator instance (Unmounted while there   *)
(* is none) and clock the wall clock its new Date() calls read.            *)
(***************************************************************************)
VARIABLES call, today, ret, hook, clock

vars == <<call, today, ret, hook, clock>>

\* no component uses the hook
Unmounted == [mounted |-> FALSE]

AllTicks == 0..(TicksPerDay - 1)

\* evaluation instants
ClockGrid ==
  {D(t) : t \in (0 - NowDaysBefore * TicksPerDay)..(MaxNowDay * TicksPerDay + TicksPerDay - 1)}

\* the instant at which the ultrasound grids are evaluated
ScanClock == D(MaxNowDay * TicksPerDay)

\* LMP dates: every instant of day 0
LmpGrid == {D(t) : t \in AllTicks}

MissingDates == {NullDate, UndefinedDate, InvalidDate}

\* ultrasound days from before the LMP to past 28 weeks
UsDays == (0 - UsDaysBefore)..MaxUsDay

\* weekly scans, at every instant of the day
WeeklyScans == {D(d * TicksPerDay + k) : d \in {u \in UsDays : u % 7 = 0}, k \in AllTicks}

GaWeeksGrid == {Num(w) : w \in 0..MaxGaWeeks}

\* sonographic ages of at most MaxDiscrepancy days from the scan's own day
NearAges(day) ==
  {m \in (day - MaxDiscrepancy)..(day + MaxDiscrepancy) : m >= 0 /\ m \div 7 <= MaxGaWeeks}

\* known due dates: the days around LMP day 0 + 280
EddGrid == {D(t) : t \in (279 * TicksPerDay)..(281 * TicksPerDay + TicksPerDay - 1)}

\* the ultrasound inputs evaluated at every instant of the clock grid
ScenarioUltrasound ==
  { <<UndefinedDate, UndefinedNum, UndefinedNum>>,
    <<D(56 * TicksPerDay), Num(9), Num(0)>>,
    <<D(56 * TicksPerDay), Num(8), Num(2)>> }

Init ==
  /\ call = [fn |-> "none"]
  /\ today \in ClockGrid
  /\ ret = [k |-> "none"]
  /\ hook = Unmounted
  /\ clock = today

InfoCall(lmpDate, ultrasoundDate, gaWeeks, gaDays) ==
  /\ call' = [fn |-> "calculatePregnancyInfo", lmpDate |-> lmpDate,
              ultrasoundDate |-> ultrasoundDate, gaWeeks |-> gaWeeks, gaDays |-> gaDays]
  /\ ret' = calculatePregnancyInfo(lmpDate, ultrasoundDate, gaWeeks, gaDays, today)
  /\ UNCHANGED <<today, hook, clock>>

\* calculatePregnancyInfo with a midnight scan on every day of the grid and
\* every sonographic age near the scan's day
CalculateNearThreshold ==
  /\ call.fn = "none"
  /\ today = ScanClock
  /\ \E lmpDate \in LmpGrid, day \in UsDays :
       \E m \in NearAges(day) :
         InfoCall(lmpDate, D(day * TicksPerDay), Num(m \div 7), Num(m % 7))

\* calculatePregnancyInfo with a weekly scan, or none, or an invalid one,
\* and any sonographic weeks, also with a part of the group missing
CalculateWeeklyScan ==
  /\ call.fn = "none"
  /\ today = ScanClock
  /\ \E lmpDate \in LmpGrid,
        ultrasoundDate \in WeeklyScans \cup {UndefinedDate, InvalidDate},
        gaWeeks \in GaWeeksGrid \cup {UndefinedNum},
        gaDays \in {Num(0), Num(6), UndefinedNum} :
       InfoCall(lmpDate, ultrasoundDate, gaWeeks, gaDays)

\* calculatePregnancyInfo at every instant of the clock grid
CalculateInfo ==
  /\ call.fn = "none"
  /\ \E lmpDate \in LmpGrid \cup MissingDates, us \in ScenarioUltrasound :
       InfoCall(lmpDate, us[1], us[2], us[3])

\* calculatePregnancyFromEdd at every instant of the clock grid
CalculateFromEdd ==
  /\ call.fn = "none"
  /\ \E edd \in EddGrid \cup MissingDates :
       /\ call' = [fn |-> "calculatePregnancyFromEdd", edd |-> edd]
       /\ ret' = calculatePregnancyFromEdd(edd, today)
       /\ UNCHANGED <<today, hook, clock>>

\* getRedatingThreshold on a week count
GetRedatingThreshold ==
  /\ call.fn = "none"
  /\ today = ScanClock
  /\ \E gaWeeks \in 0..MaxThresholdWeeks :
       /\ call' = [fn |-> "getRedatingThreshold", gaWeeks |-> gaWeeks]
       /\ ret' = [k |-> "threshold", n |-> getRedatingThreshold(Num(gaWeeks))]
       /\ UNCHANGED <<today, hook, clock>>

Next ==
  \/ CalculateNearThreshold
  \/ CalculateWeeklyScan
  \/ CalculateInfo
  \/ CalculateFromEdd
  \/ GetRedatingThreshold

Spec == Init /\ [][Next]_vars

(***************************************************************************)
(* The same calls with inputs at the ends of what the argument types hold: *)
(* a sonographic age of more days than a Date can hold, a due date that is *)
(* the first or the last representable Date.                               *)
(***************************************************************************)
HugeGaWeeks == DateRangeDays

EndDates == {D(MaxTime), D(0 - MaxTime)}

\* calculatePregnancyInfo with a sonographic age beyond the Date range
CalculateInfoAtEnds ==
  /\ call.fn = "none"
  /\ today = ScanClock
  /\ \E lmpDate \in LmpGrid,
        ultrasoundDate \in {UndefinedDate, D(70 * TicksPerDay), D(14 * TicksPerDay)},
        gaWeeks \in {UndefinedNum, Num(10), Num(HugeGaWeeks)},
        gaDays \in {UndefinedNum, Num(0)} :
       InfoCall(lmpDate, ultrasoundDate, gaWeeks, gaDays)

\* calculatePregnancyFromEdd on the first and the last representable Date
CalculateFromEddAtEnds ==
  /\ call.fn = "none"
  /\ today = ScanClock
  /\ \E edd \in EndDates :
       /\ call' = [fn |-> "calculatePregnancyFromEdd", edd |-> edd]
       /\ ret' = calculatePregnancyFromEdd(edd, today)
       /\ UNCHANGED <<today, hook, clock>>

NextAtEnds == Next \/ CalculateInfoAtEnds \/ CalculateFromEddAtEnds

SpecAtEnds == Init /\ [][NextAtEnds]_vars

(***************************************************************************)
(* usePregnancyCalculator (src/src/hooks/use-pregnancy-calculator.ts).     *)
(* A JavaScript string is a sequence of one-character strings.  hook holds *)
(* the useState cells and effectPending, which tells that a render changed *)
(* a dependency of the effect and the effect has not run yet.              *)
(***************************************************************************)
\* calendar day on which the component mounts
MountDay == 70
\* the wall clock advances at most this many ticks after the mount
MaxElapsed == 2

DigitValue ==
  ("0" :> 0) @@ ("1" :> 1) @@ ("2" :> 2) @@ ("3" :> 3) @@ ("4" :> 4) @@
  ("5" :> 5) @@ ("6" :> 6) @@ ("7" :> 7) @@ ("8" :> 8) @@ ("9" :> 9)

\* Number.parseInt: leading white space is skipped
RECURSIVE trimStart(_)
trimStart(string) ==
  IF string # <<>> /\ Head(string) = " " THEN trimStart(Tail(string)) ELSE string

\* Number.parseInt: the value of the digits up to the first other character
RECURSIVE digitRun(_, _)
digitRun(string, acc) ==
  IF string = <<>> \/ Head(string) \notin DOMAIN DigitValue THEN acc
  ELSE digitRun(Tail(string), acc * 10 + DigitValue[Head(string)])

\* Number.parseInt(string, 10)
parseInt(string) ==
  LET s == trimStart(string)
      signed == s # <<>> /\ Head(s) \in {"+", "-"}
      sign == IF s # <<>> /\ Head(s) = "-" THEN 0 - 1 ELSE 1
      body == IF signed THEN Tail(s) ELSE s
  IN IF body = <<>> \/ Head(body) \notin DOMAIN DigitValue THEN NaN
     ELSE Num(sign * digitRun(body, 0))

\* Number.isNaN(parsed) ? undefined : parsed
parsedOrUndefined(string) ==
  LET parsed == parseInt(string)
  IN IF parsed.k = "NaN" THEN UndefinedNum ELSE parsed

\* if (date): undefined and null are falsy, every Date object is truthy
Truthy(date) == date.k \notin {"undefined", "null"}

\* the useState initial values, new Date() yielding now
MountState(now) ==
  [mounted |-> TRUE,
   method |-> "lmp",
   lmpDate |-> now,
   ultrasoundDate |-> UndefinedDate,
   gaWeeks |-> <<>>,
   gaDays |-> <<>>,
   eddDate |-> UndefinedDate,
   pregnancyInfo |-> NullResult,
   effectPending |-> TRUE]

\* effectInfo without the setPregnancyInfo(null) of the reverse method: the
\* earlier result stays
effectInfo_keepsResult(h, now) ==
  IF h.method = "reverseUltrasound"
  THEN IF Truthy(h.eddDate) THEN calculatePregnancyFromEdd(h.eddDate, now)
       ELSE h.pregnancyInfo
  ELSE IF Truthy(h.lmpDate)
       THEN LET weeks == parsedOrUndefined(h.gaWeeks)
                days == parsedOrUndefined(h.gaDays)
            IN calculatePregnancyInfo(h.lmpDate, h.ultrasoundDate, weeks, days, now)
       ELSE NullResult

\* the effect callback: the value it passes to setPregnancyInfo, or
\* ThrownResult when the engine throws before it gets there
effectInfo(h, now) ==
  IF h.method = "reverseUltrasound"
  THEN IF Truthy(h.eddDate) THEN calculatePregnancyFromEdd(h.eddDate, now)
       ELSE NullResult
  ELSE IF Truthy(h.lmpDate)
       THEN LET weeks == parsedOrUndefined(h.gaWeeks)
                days == parsedOrUndefined(h.gaDays)
            IN calculatePregnancyInfo(h.lmpDate, h.ultrasoundDate, weeks, days, now)
       ELSE NullResult

\* the effect callback calls the engine, which reads the clock
effectCallsEngine(h) ==
  IF h.method = "reverseUltrasound" THEN Truthy(h.eddDate) ELSE Truthy(h.lmpDate)

\* a useState setter of a Date cell: a Date is a new object, so the
\* dependency changes unless undefined replaces undefined
dateChanged(old, new) == new.k = "date" \/ old # new

CalculationMethod == {"lmp", "ultrasound", "reverseUltrasound"}

\* dates the pickers of the form hand to the setters: local midnights
LmpDatesPicked == {D(0)}
UltrasoundDatesPicked == {D(56 * TicksPerDay)}
EddDatesPicked == {D(273 * TicksPerDay)}

\* texts of the two number fields
GaWeeksTyped == { <<>>, <<"8">>, <<"9", ".", "5">> }
GaDaysTyped == { <<>>, <<" ", "0">> }

\* instants of the wall clock while the component is mounted
MountTicks == (MountDay * TicksPerDay)..(MountDay * TicksPerDay + MaxElapsed)

InitHook ==
  /\ call = [fn |-> "none"]
  /\ ret = [k |-> "none"]
  /\ clock = D(MountDay * TicksPerDay)
  /\ today = clock
  /\ hook = MountState(clock)

setMethod(method) ==
  /\ hook.mounted
  /\ hook' = [hook EXCEPT !.method = method,
                          !.effectPending = @ \/ hook.method # method]
  /\ UNCHANGED <<call, today, ret, clock>>

setLmpDate(date) ==
  /\ hook.mounted
  /\ hook' = [hook EXCEPT !.lmpDate = date,
                          !.effectPending = @ \/ dateChanged(hook.lmpDate, date)]
  /\ UNCHANGED <<call, today, ret, clock>>

setUltrasoundDate(date) ==
  /\ hook.mounted
  /\ hook' = [hook EXCEPT !.ultrasoundDate = date,
                          !.effectPending = @ \/ dateChanged(hook.ultrasoundDate, date)]
  /\ UNCHANGED <<call, today, ret, clock>>

setGaWeeks(weeks) ==
  /\ hook.mounted
  /\ hook' = [hook EXCEPT !.gaWeeks = weeks,
                          !.effectPending = @ \/ hook.gaWeeks # weeks]
  /\ UNCHANGED <<call, today, ret, clock>>

setGaDays(days) ==
  /\ hook.mounted
  /\ hook' = [hook EXCEPT !.gaDays = days,
                          !.effectPending = @ \/ hook.gaDays # days]
  /\ UNCHANGED <<call, today, ret, clock>>

setEddDate(date) ==
  /\ hook.mounted
  /\ hook' = [hook EXCEPT !.eddDate = date,
                          !.effectPending = @ \/ dateChanged(hook.eddDate, date)]
  /\ UNCHANGED <<call, today, ret, clock>>

handleReset ==
  /\ hook.mounted
  /\ hook' = [hook EXCEPT !.lmpDate = clock,
                          !.ultrasoundDate = UndefinedDate,
                          !.gaWeeks = <<>>,
                          !.gaDays = <<>>,
                          !.eddDate = UndefinedDate,
                          !.effectPending = TRUE]
  /\ UNCHANGED <<call, today, ret, clock>>

\* the effect runs after a render that changed one of its dependencies
useEffect ==
  /\ hook.mounted
  /\ hook.effectPending
  /\ LET info == effectInfo(hook, clock)
     IN hook' = [hook EXCEPT !.pregnancyInfo = IF info.k = "throw" THEN @ ELSE info,
                             !.effectPending = FALSE]
  /\ today' = IF effectCallsEngine(hook) THEN clock ELSE today
  /\ UNCHANGED <<call, ret, clock>>

\* time passes
Tick ==
  /\ hook.mounted
  /\ clock.t + 1 \in MountTicks
  /\ clock' = D(clock.t + 1)
  /\ UNCHANGED <<call, today, ret, hook>>

NextHook ==
  \/ \E method \in CalculationMethod : setMethod(method)
  \/ \E date \in LmpDatesPicked \cup {UndefinedDate} : setLmpDate(date)
  \/ \E date \in UltrasoundDatesPicked \cup {UndefinedDate} : setUltrasoundDate(date)
  \/ \E weeks \in GaWeeksTyped : setGaWeeks(weeks)
  \/ \E days \in GaDaysTyped : setGaDays(days)
  \/ \E date \in EddDatesPicked \cup {UndefinedDate} : setEddDate(date)
  \/ handleReset
  \/ useEffect
  \/ Tick

SpecHook == InitHook /\ [][NextHook]_vars

(***************************************************************************)
(* Properties.                                                             *)
(***************************************************************************)
IsInfoCall == call.fn = "calculatePregnancyInfo"
IsEddCall == call.fn = "calculatePregnancyFromEdd"
IsThresholdCall == call.fn = "getRedatingThreshold"

\* date d moved by a number of whole days
Plus(d, days) == D(d.t + days * TicksPerDay)

\* all three ultrasound inputs were supplied to the call
UltrasoundSupplied ==
  /\ call.ultrasoundDate.k # "undefined"
  /\ call.gaWeeks.k # "undefined"
  /\ call.gaDays.k # "undefined"

\* the published bands: first week, last week (or -1 for none), days
ThresholdBands ==
  { <<0, 4, 0>>, <<5, 8, 5>>, <<9, 13, 7>>, <<14, 15, 10>>,
    <<16, 21, 14>>, <<22, 27, 21>>, <<28, 0 - 1, 21>> }

InBand(w, b) == b[1] <= w /\ (b[2] = 0 - 1 \/ w <= b[2])

\* the table's threshold for a week count (0 below the first band)
BandThreshold(w) ==
  IF w < 0 THEN 0 ELSE (CHOOSE b \in ThresholdBands : InBand(w, b))[3]

\* the call's sonographic age, LMP-based age and their distance, as the
\* dating rule defines them
MeasuredGaDays == call.gaWeeks.n * 7 + call.gaDays.n
LmpBasedGaDays == differenceInDays(call.ultrasoundDate, call.lmpDate)
Discrepancy == AbsDiff(LmpBasedGaDays, Num(MeasuredGaDays))
ShouldRedate ==
  /\ LmpBasedGaDays.k = "num"
  /\ LmpBasedGaDays.n \div 7 >= 5
  /\ Discrepancy.n > BandThreshold(LmpBasedGaDays.n \div 7)

\* C1: with a valid lmpDate and the ultrasound group absent or only partly
\* supplied, calculatePregnancyInfo returns lmpEdd = ultrasoundEdd =
\* bestEstimateEdd = lmpDate + 280 days, source LMP and discrepancyDays 0,
\* and the whole record is the one returned with no ultrasound input at all.
C1_LmpOnlyWithoutFullUltrasound ==
  (IsInfoCall /\ call.lmpDate.k = "date" /\ ~UltrasoundSupplied) =>
    /\ ret.k = "info"
    /\ ret.lmpEdd = Plus(call.lmpDate, 280)
    /\ ret.ultrasoundEdd = Plus(call.lmpDate, 280)
    /\ ret.bestEstimateEdd = Plus(call.lmpDate, 280)
    /\ ret.source = "LMP"
    /\ ret.discrepancyDays = Num(0)
    /\ ret = calculatePregnancyInfo(call.lmpDate, UndefinedDate, UndefinedNum,
                                    UndefinedNum, today)

\* a scan date and weeks were supplied without days, and the result is LMP
C1_Witness ==
  /\ IsInfoCall
  /\ call.lmpDate.k = "date"
  /\ call.ultrasoundDate.k = "date"
  /\ call.gaWeeks.k = "num"
  /\ call.gaDays.k = "undefined"
  /\ ret.k = "info"
  /\ ret.source = "LMP"

\* C2: for a valid edd, calculatePregnancyFromEdd returns lmpEdd =
\* ultrasoundEdd = bestEstimateEdd = edd, conceptionDate = edd - 266 days,
\* source Ultrasound and discrepancyDays 0, at every evaluation instant.
C2_FromEddFields ==
  (IsEddCall /\ call.edd.k = "date") =>
    /\ ret.k = "info"
    /\ ret.lmpEdd = call.edd
    /\ ret.ultrasoundEdd = call.edd
    /\ ret.bestEstimateEdd = call.edd
    /\ ret.conceptionDate = Plus(call.edd, 0 - 266)
    /\ ret.source = "Ultrasound"
    /\ ret.discrepancyDays = Num(0)

\* a due date evaluated at an instant in its last twelve weeks
C2_Witness ==
  /\ IsEddCall
  /\ call.edd.k = "date"
  /\ ret.k = "info"
  /\ today.t > call.edd.t - 84 * TicksPerDay
  /\ ret.conceptionDate.t + 266 * TicksPerDay = call.edd.t

\* C3: with all three ultrasound inputs supplied, the result reports
\* discrepancyDays = |lmpBasedGaDays - measuredGaDays| and lmpEdd = lmpDate +
\* 280 days; it has source Ultrasound and bestEstimateEdd = ultrasoundEdd =
\* ultrasoundDate + (280 - measuredGaDays) days exactly when the LMP-based
\* completed weeks are >= 5 and the discrepancy is strictly greater than the
\* threshold of their band; otherwise source LMP_CONFIRMED and
\* bestEstimateEdd = lmpEdd.
C3_RedatingRule ==
  (IsInfoCall /\ call.lmpDate.k = "date" /\ UltrasoundSupplied) =>
    /\ ret.k = "info"
    /\ ret.discrepancyDays = Discrepancy
    /\ ret.lmpEdd = Plus(call.lmpDate, 280)
    /\ IF ShouldRedate
       THEN /\ ret.source = "Ultrasound"
            /\ ret.ultrasoundEdd = Plus(call.ultrasoundDate, 280 - MeasuredGaDays)
            /\ ret.bestEstimateEdd = ret.ultrasoundEdd
       ELSE /\ ret.source = "LMP_CONFIRMED"
            /\ ret.bestEstimateEdd = ret.lmpEdd

\* a scan in the band of 28 weeks and more whose discrepancy equals the
\* threshold, which does not redate
C3_Witness ==
  /\ IsInfoCall
  /\ call.lmpDate.k = "date"
  /\ UltrasoundSupplied
  /\ LmpBasedGaDays.k = "num"
  /\ LmpBasedGaDays.n \div 7 >= 28
  /\ Discrepancy.n = 21
  /\ ret.k = "info"
  /\ ret.source = "LMP_CONFIRMED"

\* C4: with ultrasound data supplied and fewer than 5 completed LMP-based
\* weeks at the scan (negative counts included), the source is not
\* Ultrasound and bestEstimateEdd = lmpDate + 280 days.
C4_NeverRedateBelowFiveWeeks ==
  ( /\ IsInfoCall
    /\ call.lmpDate.k = "date"
    /\ UltrasoundSupplied
    /\ LmpBasedGaDays.k = "num"
    /\ LmpBasedGaDays.n \div 7 < 5 ) =>
    /\ ret.k = "info"
    /\ ret.source # "Ultrasound"
    /\ ret.bestEstimateEdd = Plus(call.lmpDate, 280)

\* a scan dated before the LMP with a discrepancy of more than 200 days
C4_Witness ==
  /\ IsInfoCall
  /\ call.lmpDate.k = "date"
  /\ UltrasoundSupplied
  /\ LmpBasedGaDays.k = "num"
  /\ LmpBasedGaDays.n < 0
  /\ Discrepancy.n > 200
  /\ ret.k = "info"
  /\ ret.source = "LMP_CONFIRMED"

\* C5: getRedatingThreshold returns the table value for every week count
\* >= 0; each week count lies in exactly one band, and the threshold does
\* not decrease as the week count grows.
C5_ThresholdTable ==
  IsThresholdCall =>
    /\ ret.k = "threshold"
    /\ Cardinality({b \in ThresholdBands : InBand(call.gaWeeks, b)}) = 1
    /\ ret.n = BandThreshold(call.gaWeeks)
    /\ \A w \in 0..call.gaWeeks : getRedatingThreshold(Num(w)) <= ret.n

\* the threshold of a week count in the last band
C5_Witness ==
  /\ IsThresholdCall
  /\ call.gaWeeks >= 28
  /\ ret.k = "threshold"
  /\ ret.n = 21

\* the tick count of the estimated LMP of a result: bestEstimateEdd - 280 days
EstimatedLmpOf(r) == r.bestEstimateEdd.t - 280 * TicksPerDay

\* C6: in the results of both entry points the trimester is 1, 2 or 3;
\* firstTrimesterEnd is the estimated LMP + 13w6d and secondTrimesterEnd the
\* estimated LMP + 27w6d; evaluated exactly at firstTrimesterEnd the trimester
\* is 1 and one day later 2; exactly at secondTrimesterEnd it is 2 and one
\* day later 3.
C6_TrimesterBoundaries ==
  ret.k = "info" =>
    LET firstEnd == EstimatedLmpOf(ret) + (13 * 7 + 6) * TicksPerDay
        secondEnd == EstimatedLmpOf(ret) + (27 * 7 + 6) * TicksPerDay
    IN /\ ret.trimester \in {1, 2, 3}
       /\ ret.firstTrimesterEnd = D(firstEnd)
       /\ ret.secondTrimesterEnd = D(secondEnd)
       /\ today.t = firstEnd => ret.trimester = 1
       /\ today.t = firstEnd + TicksPerDay => ret.trimester = 2
       /\ today.t = secondEnd => ret.trimester = 2
       /\ today.t = secondEnd + TicksPerDay => ret.trimester = 3

\* calculatePregnancyInfo evaluated exactly at the end of the first trimester
C6_Witness ==
  /\ IsInfoCall
  /\ ret.k = "info"
  /\ today = ret.firstTrimesterEnd
  /\ ret.trimester = 1

\* C7: in the results of both entry points gestationalAgeWeeks >= 0,
\* gestationalAgeDays is in 0..6, and weeks * 7 + days is the number of full
\* days from the estimated LMP (bestEstimateEdd - 280 days) to the evaluation
\* instant, or 0 when the estimated LMP is after that instant.
C7_GestationalAge ==
  ret.k = "info" =>
    /\ ret.gestationalAgeWeeks.k = "num"
    /\ ret.gestationalAgeDays.k = "num"
    /\ ret.gestationalAgeWeeks.n >= 0
    /\ ret.gestationalAgeDays.n \in 0..6
    /\ ret.gestationalAgeWeeks.n * 7 + ret.gestationalAgeDays.n =
         IF today.t < EstimatedLmpOf(ret) THEN 0
         ELSE (today.t - EstimatedLmpOf(ret)) \div TicksPerDay

\* an estimated LMP more than a day after the evaluation instant
C7_Witness ==
  /\ IsInfoCall
  /\ ret.k = "info"
  /\ today.t + TicksPerDay < EstimatedLmpOf(ret)
  /\ ret.gestationalAgeWeeks = Num(0)
  /\ ret.gestationalAgeDays = Num(0)

\* C8: calculatePregnancyInfo returns null exactly when lmpDate is null,
\* undefined or invalid, calculatePregnancyFromEdd exactly when edd is, and
\* for every valid primary date each returns a record and raises no error.
C8_NullExactlyWhenMissingNeverRaises ==
  /\ IsInfoCall =>
       IF call.lmpDate.k = "date" THEN ret.k = "info" ELSE ret.k = "null"
  /\ IsEddCall =>
       IF call.edd.k = "date" THEN ret.k = "info" ELSE ret.k = "null"

\* the sonographic ages, in days, of the weeks and days a scan can report
GaAges == 0..(MaxGaWeeks * 7 + 6)

\* the source calculatePregnancyInfo reports for the call's lmpDate and
\* ultrasoundDate with the sonographic age m
SourceWithAge(m) ==
  redatingDecision(call.lmpDate, call.ultrasoundDate, Num(m \div 7), Num(m % 7)).source

\* C9: for the lmpDate and ultrasoundDate of a call, if a sonographic age m1
\* gives source Ultrasound then so does every age at least as far from the
\* LMP-based age: when the call's own result is not Ultrasound, no age with
\* a discrepancy of at most the call's gives Ultrasound.
C9_RedatingMonotone ==
  ( /\ IsInfoCall
    /\ call.lmpDate.k = "date"
    /\ UltrasoundSupplied
    /\ LmpBasedGaDays.k = "num"
    /\ ret.k = "info"
    /\ ret.source # "Ultrasound" ) =>
    LET lmpBased == LmpBasedGaDays.n
        discrepancy == Discrepancy.n
    IN \A m1 \in GaAges \cap ((lmpBased - discrepancy)..(lmpBased + discrepancy)) :
         SourceWithAge(m1) # "Ultrasound"

\* a redated call, and a smaller age on the other side of the LMP-based age
\* with a smaller discrepancy that redates too
C9_Witness ==
  /\ IsInfoCall
  /\ call.lmpDate.k = "date"
  /\ UltrasoundSupplied
  /\ LmpBasedGaDays.k = "num"
  /\ ret.k = "info"
  /\ ret.source = "Ultrasound"
  /\ MeasuredGaDays > LmpBasedGaDays.n
  /\ LET lmpBased == LmpBasedGaDays.n
         discrepancy == Discrepancy.n
     IN \E m1 \in GaAges \cap ((lmpBased - discrepancy + 1)..(lmpBased - 1)) :
          SourceWithAge(m1) = "Ultrasound"

ComparedFields ==
  { "lmpEdd", "ultrasoundEdd", "bestEstimateEdd", "gestationalAgeWeeks",
    "gestationalAgeDays", "conceptionDate", "trimester", "firstTrimesterEnd",
    "secondTrimesterEnd", "discrepancyDays", "milestoneDates" }

\* C10: for a valid date L and any evaluation instant, calculatePregnancyInfo(L)
\* without ultrasound data and calculatePregnancyFromEdd(L + 280 days) return
\* records equal in every field but source, and the reverse path's
\* conceptionDate is the estimated LMP + 14 days.
C10_ForwardReverseAgree ==
  ( /\ IsInfoCall
    /\ call.lmpDate.k = "date"
    /\ call.ultrasoundDate.k = "undefined"
    /\ call.gaWeeks.k = "undefined"
    /\ call.gaDays.k = "undefined" ) =>
    LET reverse == calculatePregnancyFromEdd(Plus(call.lmpDate, 280), today)
    IN /\ ret.k = "info"
       /\ reverse.k = "info"
       /\ \A f \in ComparedFields : ret[f] = reverse[f]
       /\ reverse.conceptionDate = D(EstimatedLmpOf(reverse) + 14 * TicksPerDay)

\* an LMP-only call evaluated in the second trimester
C10_Witness ==
  /\ IsInfoCall
  /\ call.lmpDate.k = "date"
  /\ call.ultrasoundDate.k = "undefined"
  /\ call.gaWeeks.k = "undefined"
  /\ call.gaDays.k = "undefined"
  /\ ret.k = "info"
  /\ ret.trimester = 2
  /\ ret.gestationalAgeWeeks.n >= 14

\* the effect has run for the current inputs of the hook
Recomputed == hook.mounted /\ ~hook.effectPending

\* C11: when method is 'lmp' and lmpDate is set, once the effect has run
\* pregnancyInfo has source LMP, discrepancyDays 0 and bestEstimateEdd =
\* lmpDate + 280 days, whatever ultrasoundDate, gaWeeks and gaDays hold from
\* earlier setter calls.
C11_LmpMethodUsesLmpOnly ==
  (Recomputed /\ hook.method = "lmp" /\ hook.lmpDate.k = "date") =>
    /\ hook.pregnancyInfo.k = "info"
    /\ hook.pregnancyInfo.source = "LMP"
    /\ hook.pregnancyInfo.discrepancyDays = Num(0)
    /\ hook.pregnancyInfo.bestEstimateEdd = Plus(hook.lmpDate, 280)

\* the useState cells the setters write
InputCells == {"method", "lmpDate", "ultrasoundDate", "gaWeeks", "gaDays", "eddDate"}

\* the input state of h is the one of a first mount at lmpDate's instant
HasMountInputs(h) == \A c \in InputCells : h[c] = MountState(h.lmpDate)[c]

\* C12: handleReset leaves the input state of a first mount at the current
\* date (method 'lmp', lmpDate the current date, ultrasoundDate and eddDate
\* unset, gaWeeks and gaDays empty), and the effect then computes from it
\* the result of a first mount.
C12_ResetRestoresMountState ==
  [][ /\ handleReset => (hook'.lmpDate = clock /\ HasMountInputs(hook'))
      /\ (useEffect /\ HasMountInputs(hook)) =>
           hook'.pregnancyInfo =
             calculatePregnancyInfo(hook.lmpDate, UndefinedDate, UndefinedNum,
                                    UndefinedNum, clock) ]_vars

\* the offset of a catalog entry's start and end from the estimated LMP, in days
StartOffset(m) == m.startWeeks * 7 + m.startDays
EndOffset(m) == m.endWeeks * 7 + m.endDays

\* C13: in the results of both entry points milestoneDates has the 8 catalog
\* entries in catalog order; an entry is a single date exactly when its start
\* and end (the estimated LMP plus the catalog offsets) are on the same
\* calendar day, which in the catalog is 'Typical anatomy scan' alone, and a
\* start-to-end range otherwise; no catalog entry starts after its end.
C13_MilestoneEntries ==
  ret.k = "info" =>
    /\ Len(ret.milestoneDates) = 8
    /\ \A i \in 1..8 :
         LET m == pregnancyMilestones[i]
             entry == ret.milestoneDates[i]
             startDay == DayOf(EstimatedLmpOf(ret) + StartOffset(m) * TicksPerDay)
             endDay == DayOf(EstimatedLmpOf(ret) + EndOffset(m) * TicksPerDay)
         IN /\ entry.name = m.name
            /\ entry.dateRange =
                 IF startDay = endDay THEN <<endDay>>
                 ELSE <<startDay % DaysPerYear, endDay>>
            /\ Len(entry.dateRange) = 1 <=> m.name = "Typical anatomy scan"
            /\ StartOffset(m) <= EndOffset(m)

\* a redated result whose fifth entry is a single date and whose first is a
\* range
C13_Witness ==
  /\ IsInfoCall
  /\ ret.k = "info"
  /\ ret.source = "Ultrasound"
  /\ ret.milestoneDates[5].name = "Typical anatomy scan"
  /\ Len(ret.milestoneDates[5].dateRange) = 1
  /\ Len(ret.milestoneDates[1].dateRange) = 2

\* the age a result reports, in days
AgeOf(r) == r.gestationalAgeWeeks.n * 7 + r.gestationalAgeDays.n

\* the result of the call's lmpDate alone, at the same instant
LmpOnlyResult ==
  calculatePregnancyInfo(call.lmpDate, UndefinedDate, UndefinedNum, UndefinedNum, today)

\* the dates of a forward result are fixed offsets from its estimated LMP
\* (bestEstimateEdd - 280 days): conception + 14 days, trimester ends + 97
\* and + 195 days, every milestone at its catalog offsets; they are in the
\* order conception < first end < second end < bestEstimateEdd
DatesFromEstimatedLmp ==
  LET estimatedLmp == EstimatedLmpOf(ret)
  IN /\ ret.conceptionDate = D(estimatedLmp + 14 * TicksPerDay)
     /\ ret.firstTrimesterEnd = D(estimatedLmp + 97 * TicksPerDay)
     /\ ret.secondTrimesterEnd = D(estimatedLmp + 195 * TicksPerDay)
     /\ \A i \in DOMAIN pregnancyMilestones :
          LET m == pregnancyMilestones[i]
              range == ret.milestoneDates[i].dateRange
              startDay == DayOf(estimatedLmp + StartOffset(m) * TicksPerDay)
              endDay == DayOf(estimatedLmp + EndOffset(m) * TicksPerDay)
          IN /\ range[Len(range)] = endDay
             /\ Len(range) = 2 => range[1] = startDay % DaysPerYear
     /\ ret.conceptionDate.t < ret.firstTrimesterEnd.t
     /\ ret.firstTrimesterEnd.t < ret.secondTrimesterEnd.t
     /\ ret.secondTrimesterEnd.t < ret.bestEstimateEdd.t

\* the dates of a redated result are those of the LMP-only result moved by
\* ultrasoundEdd - lmpEdd
DatesShifted ==
  LET shift == ret.ultrasoundEdd.t - ret.lmpEdd.t
  IN /\ shift # 0
     /\ ret.conceptionDate.t = LmpOnlyResult.conceptionDate.t + shift
     /\ ret.firstTrimesterEnd.t = LmpOnlyResult.firstTrimesterEnd.t + shift
     /\ ret.secondTrimesterEnd.t = LmpOnlyResult.secondTrimesterEnd.t + shift

\* the age of a redated result is that of the LMP-only result less the days
\* of ultrasoundEdd - lmpEdd
AgeShifted ==
  (AgeOf(LmpOnlyResult) - AgeOf(ret)) * TicksPerDay = ret.ultrasoundEdd.t - ret.lmpEdd.t

\* C14 as stated: every derived date of a forward result is a fixed offset
\* from the estimated LMP, in order, and when source is Ultrasound the dates
\* and the gestational age are those of the LMP-only result shifted by
\* exactly ultrasoundEdd - lmpEdd.
C14_DatesAndAgeShiftExactly ==
  (IsInfoCall /\ ret.k = "info") =>
    /\ DatesFromEstimatedLmp
    /\ ret.source = "Ultrasound" => (DatesShifted /\ AgeShifted)

\* C14 as amended: the same for the dates; the gestational age is shifted by
\* exactly ultrasoundEdd - lmpEdd when that is a whole number of days and the
\* evaluation instant is before neither estimated LMP (no age is clamped).
C14_DatesShiftAgeFollows ==
  (IsInfoCall /\ ret.k = "info") =>
    /\ DatesFromEstimatedLmp
    /\ ret.source = "Ultrasound" =>
         /\ DatesShifted
         /\ ( /\ (ret.ultrasoundEdd.t - ret.lmpEdd.t) % TicksPerDay = 0
              /\ today.t >= EstimatedLmpOf(ret)
              /\ today.t >= EstimatedLmpOf(LmpOnlyResult) ) => AgeShifted

\* a result redated to a due date a whole number of days earlier, evaluated
\* after both estimated LMPs, whose age is larger than the LMP-only one
C14_Witness ==
  /\ IsInfoCall
  /\ ret.k = "info"
  /\ ret.source = "Ultrasound"
  /\ (ret.ultrasoundEdd.t - ret.lmpEdd.t) % TicksPerDay = 0
  /\ ret.ultrasoundEdd.t < ret.lmpEdd.t
  /\ today.t >= EstimatedLmpOf(LmpOnlyResult)
  /\ AgeOf(ret) > AgeOf(LmpOnlyResult)
  /\ ret.conceptionDate.t < call.lmpDate.t + 14 * TicksPerDay

\* C15: in every result of either entry point, at every evaluation instant,
\* the trimester agrees with the reported age g = weeks * 7 + days: it is 1
\* exactly when g <= 97, 2 exactly when 98 <= g <= 195 and 3 exactly when
\* g >= 196.
C15_TrimesterAgreesWithAge ==
  ret.k = "info" =>
    LET g == AgeOf(ret)
    IN /\ ret.trimester = 1 <=> g <= 97
       /\ ret.trimester = 2 <=> (98 <= g /\ g <= 195)
       /\ ret.trimester = 3 <=> g >= 196

\* the date the selected method computes from
PrimaryDate ==
  IF hook.method = "reverseUltrasound" THEN hook.eddDate ELSE hook.lmpDate

\* C16: once the effect has run for the current inputs, pregnancyInfo is
\* null exactly when the selected method's primary date is unset; with
\* method 'reverseUltrasound' and eddDate set it is
\* calculatePregnancyFromEdd(eddDate), whatever the other cells hold; with the
\* other methods it is the same for every eddDate; so no result of a method
\* selected earlier remains.
C16_InfoOfSelectedMethod ==
  Recomputed =>
    /\ hook.pregnancyInfo.k = "null" <=> PrimaryDate.k = "undefined"
    /\ (hook.method = "reverseUltrasound" /\ hook.eddDate.k = "date") =>
         hook.pregnancyInfo = calculatePregnancyFromEdd(hook.eddDate, today)
    /\ hook.method # "reverseUltrasound" =>
         \A date \in EddDatesPicked \cup {UndefinedDate} :
           hook.pregnancyInfo = effectInfo([hook EXCEPT !.eddDate = date], today)

\* the reverse method with a known due date, while an LMP, a scan and a
\* sonographic age that would redate are still entered
C16_Witness ==
  /\ Recomputed
  /\ hook.method = "reverseUltrasound"
  /\ hook.eddDate.k = "date"
  /\ hook.lmpDate = D(0)
  /\ hook.ultrasoundDate.k = "date"
  /\ parseInt(hook.gaWeeks) = Num(9)
  /\ parseInt(hook.gaDays) = Num(0)
  /\ hook.pregnancyInfo.k = "info"
  /\ hook.pregnancyInfo.bestEstimateEdd = hook.eddDate
  /\ hook.pregnancyInfo.discrepancyDays = Num(0)

====
